---- MODULE Spec2Model ----
(***************************************************************************)
(* chidjimi: JSON text -> tokens -> JsonObject tree -> MessagePack bytes.  *)
(*                                                                         *)
(* The three stages are pure functions (src/parser/token.rs tokenize,      *)
(* src/parser/mod.rs parse, src/message_pack/serialize.rs serialize).      *)
(* Each one has its own specification below:                               *)
(*   SpecSerialize  draws a JsonObject and applies serialize;              *)
(*   SpecParse      draws a token sequence and applies parse;              *)
(*   SpecTokenize   runs the tokenize loop over a character stream.        *)
(***************************************************************************)
EXTENDS Integers, Sequences, FiniteSets

VARIABLES
    object,      \* serialize: the JsonObject argument
    packed,      \* serialize: NotCalled, or the outcome of the call
    tokens,      \* parse: the token slice behind the Peekable<Iter<Token>>
    parsed,      \* parse: NotCalled, or the outcome of the call and the cursor
    pc,          \* tokenize: position in the loop ("start", "string", ...)
    lexed,       \* tokenize: the local vector `tokens`
    buffer,      \* tokenize: the local `string` / `number` / `next_chars`
    peeked,      \* tokenize: the Peekable's one-character look-ahead slot
    lexeme,      \* tokenize: the input characters read since the last loop head
    charset,     \* tokenize: the characters the input text is written in
    result       \* tokenize: NotCalled while running, then Ok(tokens) or Err(e)

vars ==
    <<object, packed, tokens, parsed, pc, lexed, buffer, peeked, lexeme, charset, result>>

serVars == <<object, packed>>
parseVars == <<tokens, parsed>>
tokVars == <<pc, lexed, buffer, peeked, lexeme, charset, result>>

NotCalled == [kind |-> "none"]

Last(s) == s[Len(s)]

(***************************************************************************)
(* f64.  A JSON number is an f64 (Token::Number(f64), JsonObject::Number). *)
(* The model keeps the value exactly: a sign, the integer part as four     *)
(* 16-bit limbs (most significant first), and the decimal digits of the    *)
(* fractional part without trailing zeros.  `big` stands for every         *)
(* magnitude of 2^64 or more (integer-valued in f64; the limbs are then    *)
(* unused and zero).                                                       *)
(***************************************************************************)
ZeroLimbs == <<0, 0, 0, 0>>

F64(neg, big, int, frac) == [neg |-> neg, big |-> big, int |-> int, frac |-> frac]

\* The f64 of a small natural number n < 65536.
SmallF64(n) == F64(FALSE, FALSE, <<0, 0, 0, n>>, <<>>)

RECURSIVE BitLen(_)
BitLen(n) == IF n = 0 THEN 0 ELSE 1 + BitLen(n \div 2)

RECURSIVE TrailingZeros(_)
TrailingZeros(n) == IF n % 2 = 1 THEN 0 ELSE 1 + TrailingZeros(n \div 2)

\* Limb i of a u64, counted from the least significant (i = 0 .. 3).
Limb(v, i) == v[4 - i]

\* An integer is an f64 exactly when its significant bits span at most 53.
IsF64Integer(v) ==
    \/ v = ZeroLimbs
    \/ LET nz == {i \in 0..3 : Limb(v, i) # 0}
           hi == CHOOSE i \in nz : \A j \in nz : j <= i
           lo == CHOOSE i \in nz : \A j \in nz : j >= i
           top == 16 * hi + BitLen(Limb(v, hi))
           bottom == 16 * lo + TrailingZeros(Limb(v, lo))
       IN  top - bottom <= 53

(***************************************************************************)
(* JsonObject (src/parser/mod.rs).  An Object's HashMap is a function from *)
(* its key set to the values.                                              *)
(***************************************************************************)
JsonNull == [type |-> "Null"]
JsonBoolean(b) == [type |-> "Boolean", bool |-> b]
JsonNumber(n) == [type |-> "Number", num |-> n]
JsonString(s) == [type |-> "String", str |-> s]
JsonArray(elements) == [type |-> "Array", elements |-> elements]
JsonObjectMap(entries) == [type |-> "Object", entries |-> entries]

EmptyMap == [k \in {} |-> JsonNull]

\* HashMap::insert: a key already present is overwritten.
MapInsert(m, key, value) ==
    [k \in DOMAIN m \cup {key} |-> IF k = key THEN value ELSE m[k]]

(***************************************************************************)
(* MessagePack encoder (src/message_pack/serialize.rs).                    *)
(***************************************************************************)
Bytes(bs) == [kind |-> "bytes", bytes |-> bs]

\* todo!(), panic!(): the call does not return.
Panic(msg) == [kind |-> "panic", msg |-> msg]

\* a <= b on u64 values.
RECURSIVE LimbsLe(_, _, _)
LimbsLe(a, b, i) ==
    IF i > 4 THEN TRUE
    ELSE IF a[i] # b[i] THEN a[i] < b[i]
    ELSE LimbsLe(a, b, i + 1)

U64Le(a, b) == LimbsLe(a, b, 1)

FixintMax == <<0, 0, 0, 127>>
U8Max == <<0, 0, 0, 255>>
U16Max == <<0, 0, 0, 65535>>
U32Max == <<0, 0, 65535, 65535>>
U64Max == <<65535, 65535, 65535, 65535>>

\* `val as u8`: the low eight bits.
AsU8(val) == val[4] % 256

\* One 16-bit limb as two big-endian bytes.
LimbBytes(w) == <<w \div 256, w % 256>>

\* (val as u16).to_be_bytes(), (val as u32).to_be_bytes(), val.to_be_bytes()
U16BeBytes(val) == LimbBytes(val[4])
U32BeBytes(val) == LimbBytes(val[3]) \o LimbBytes(val[4])
U64BeBytes(val) ==
    LimbBytes(val[1]) \o LimbBytes(val[2]) \o LimbBytes(val[3]) \o LimbBytes(val[4])

serialize_uint_off_by_one(val) ==
    IF U64Le(val, FixintMax) THEN <<AsU8(val)>>
    ELSE IF U64Le(val, U8Max) /\ val # U8Max THEN <<204, AsU8(val)>>
    ELSE IF U64Le(val, U16Max) /\ val # U16Max THEN <<205>> \o U16BeBytes(val)
    ELSE IF U64Le(val, U32Max) /\ val # U32Max THEN <<206>> \o U32BeBytes(val)
    ELSE <<207>> \o U64BeBytes(val)

serialize_uint(val) ==
    IF U64Le(val, FixintMax) THEN <<AsU8(val)>>
    ELSE IF U64Le(val, U8Max) THEN <<204, AsU8(val)>>
    ELSE IF U64Le(val, U16Max) THEN <<205>> \o U16BeBytes(val)
    ELSE IF U64Le(val, U32Max) THEN <<206>> \o U32BeBytes(val)
    ELSE <<207>> \o U64BeBytes(val)

serialize_int(val) == Panic("not yet implemented")

\* val == val.trunc()
IsTruncated(val) == val.frac = <<>>

\* val < 0.0 (false for -0.0)
IsNegative(val) == val.neg /\ (val.big \/ val.int # ZeroLimbs \/ val.frac # <<>>)

\* `val as u64` for val >= 0: the cast saturates at u64::MAX.
AsU64(val) == IF val.big THEN U64Max ELSE val.int

serialize(obj) ==
    IF obj.type = "Null" THEN Bytes(<<192>>)
    ELSE IF obj.type = "Boolean" THEN
        IF obj.bool THEN Bytes(<<195>>) ELSE Bytes(<<194>>)
    ELSE IF obj.type = "Number" THEN
        IF IsTruncated(obj.num) THEN
            IF IsNegative(obj.num) THEN serialize_int(obj.num)
            ELSE Bytes(serialize_uint(AsU64(obj.num)))
        ELSE Panic("not yet implemented")
    ELSE Panic("not yet implemented")

(***************************************************************************)
(* Token (src/parser/token.rs).  Text (a String payload, an Object key) is *)
(* a sequence of characters.                                               *)
(***************************************************************************)
OpenBrace == [type |-> "OpenBrace"]
CloseBrace == [type |-> "CloseBrace"]
OpenBracket == [type |-> "OpenBracket"]
CloseBracket == [type |-> "CloseBracket"]
Colon == [type |-> "Colon"]
Comma == [type |-> "Comma"]
TokString(s) == [type |-> "String", str |-> s]
TokNumber(n) == [type |-> "Number", num |-> n]
TokBoolean(b) == [type |-> "Boolean", bool |-> b]
TokNull == [type |-> "Null"]

(***************************************************************************)
(* Parser (src/parser/mod.rs).  `i` is the cursor of the shared iterator:  *)
(* the index of the next token `tokens.next()` returns; past the end the   *)
(* iterator returns None.  A call returns a value and the advanced cursor, *)
(* or panics.                                                              *)
(***************************************************************************)
Value(v, i) == [kind |-> "value", value |-> v, pos |-> i]
Abort(msg, i) == [kind |-> "panic", msg |-> msg, pos |-> i]

RECURSIVE parse(_, _)
RECURSIVE ArrayLoop(_, _, _)
RECURSIVE ObjectLoop(_, _, _)

ArrayLoop_comma_as_element(toks, i, elements) ==
    IF i > Len(toks) THEN Value(JsonArray(elements), i)
    ELSE IF toks[i] = CloseBracket THEN Value(JsonArray(elements), i + 1)
    ELSE IF toks[i] = Comma THEN ArrayLoop(toks, i + 1, Append(elements, JsonNull))
    ELSE LET r == parse(toks, i)
         IN  IF r.kind = "value"
             THEN ArrayLoop(toks, r.pos, Append(elements, r.value))
             ELSE r

\* Token::OpenBracket arm: `while let Some(token) = tokens.peek()`.
ArrayLoop(toks, i, elements) ==
    IF i > Len(toks) THEN Value(JsonArray(elements), i)
    ELSE IF toks[i] = CloseBracket THEN Value(JsonArray(elements), i + 1)
    ELSE IF toks[i] = Comma THEN ArrayLoop(toks, i + 1, elements)
    ELSE LET r == parse(toks, i)
         IN  IF r.kind = "value"
             THEN ArrayLoop(toks, r.pos, Append(elements, r.value))
             ELSE r

\* Token::OpenBrace arm: `while let Some(token) = tokens.peek()`.
ObjectLoop(toks, i, elements) ==
    IF i > Len(toks) THEN Value(JsonObjectMap(elements), i)
    ELSE IF toks[i] = CloseBrace THEN Value(JsonObjectMap(elements), i + 1)
    ELSE IF toks[i] = Comma THEN ObjectLoop(toks, i + 1, elements)
    ELSE IF toks[i].type = "String" THEN
        IF i + 1 <= Len(toks) /\ toks[i + 1] = Colon
        THEN LET r == parse(toks, i + 2)
             IN  IF r.kind = "value"
                 THEN ObjectLoop(toks, r.pos, MapInsert(elements, toks[i].str, r.value))
                 ELSE r
        ELSE Abort("Expected colon after key", IF i + 1 <= Len(toks) THEN i + 2 ELSE i + 1)
    ELSE Abort("Invalid token inside object", i)

parse_drains_input(toks, i) ==
    IF i > Len(toks) THEN Value(JsonNull, i)
    ELSE LET token == toks[i]
         IN  IF token.type = "Null" THEN Value(JsonNull, Len(toks) + 1)
             ELSE IF token.type = "Boolean" THEN Value(JsonBoolean(token.bool), Len(toks) + 1)
             ELSE IF token.type = "Number" THEN Value(JsonNumber(token.num), Len(toks) + 1)
             ELSE IF token.type = "String" THEN Value(JsonString(token.str), Len(toks) + 1)
             ELSE IF token = OpenBracket THEN ArrayLoop(toks, i + 1, <<>>)
             ELSE IF token = OpenBrace THEN ObjectLoop(toks, i + 1, EmptyMap)
             ELSE Abort("not yet implemented", i + 1)

parse(toks, i) ==
    IF i > Len(toks) THEN Value(JsonNull, i)
    ELSE LET token == toks[i]
         IN  IF token.type = "Null" THEN Value(JsonNull, i + 1)
             ELSE IF token.type = "Boolean" THEN Value(JsonBoolean(token.bool), i + 1)
             ELSE IF token.type = "Number" THEN Value(JsonNumber(token.num), i + 1)
             ELSE IF token.type = "String" THEN Value(JsonString(token.str), i + 1)
             ELSE IF token = OpenBracket THEN ArrayLoop(toks, i + 1, <<>>)
             ELSE IF token = OpenBrace THEN ObjectLoop(toks, i + 1, EmptyMap)
             ELSE Abort("not yet implemented", i + 1)

(***************************************************************************)
(* SpecSerialize: one call serialize(object).                              *)
(***************************************************************************)
\* Limb values around the header boundaries of serialize_uint.
LowLimbs == {0, 1, 127, 128, 255, 256, 65535}
HighLimbs == {0, 1, 65535}

SampleU64 ==
    {v \in {<<a, b, c, d>> : a \in HighLimbs, b \in HighLimbs,
                             c \in HighLimbs, d \in LowLimbs} : IsF64Integer(v)}

SampleNumbers ==
    {F64(neg, FALSE, v, <<>>) : neg \in BOOLEAN, v \in SampleU64}
    \cup {F64(neg, FALSE, <<0, 0, 0, d>>, <<5>>) : neg \in BOOLEAN, d \in LowLimbs}
    \cup {F64(neg, TRUE, ZeroLimbs, <<>>) : neg \in BOOLEAN}

SampleObjects ==
    {JsonNull, JsonBoolean(FALSE), JsonBoolean(TRUE)}
    \cup {JsonNumber(n) : n \in SampleNumbers}
    \cup {JsonString(""), JsonString("a")}
    \cup {JsonArray(<<>>), JsonArray(<<JsonNull>>)}
    \cup {JsonObjectMap(EmptyMap), JsonObjectMap(MapInsert(EmptyMap, "a", JsonNull))}

ParseIdle == tokens = <<>> /\ parsed = NotCalled

TokenizeIdle ==
    /\ pc = "idle"
    /\ lexed = <<>>
    /\ buffer = <<>>
    /\ peeked = <<>>
    /\ lexeme = <<>>
    /\ charset = {}
    /\ result = NotCalled

SerializeIdle == object = JsonNull /\ packed = NotCalled

InitSerialize ==
    /\ object \in SampleObjects
    /\ packed = NotCalled
    /\ ParseIdle
    /\ TokenizeIdle

Serialize ==
    /\ packed = NotCalled
    /\ packed' = serialize(object)
    /\ UNCHANGED <<object, parseVars, tokVars>>

NextSerialize == Serialize

SpecSerialize == InitSerialize /\ [][NextSerialize]_vars

(***************************************************************************)
(* SpecParse: one top-level call parse(&mut tokens.iter().peekable()).     *)
(***************************************************************************)
MaxTokens == 5

ParseAlphabet ==
    {OpenBrace, CloseBrace, OpenBracket, CloseBracket, Colon, Comma,
     TokString(<<"a">>), TokNumber(SmallF64(1)), TokBoolean(FALSE), TokNull}

TokenSeqs(n) == UNION {[1..k -> ParseAlphabet] : k \in 0..n}

InitParse ==
    /\ tokens \in TokenSeqs(MaxTokens)
    /\ parsed = NotCalled
    /\ SerializeIdle
    /\ TokenizeIdle

Parse ==
    /\ parsed = NotCalled
    /\ parsed' = parse(tokens, 1)
    /\ UNCHANGED <<tokens, serVars, tokVars>>

NextParse == Parse

SpecParse == InitParse /\ [][NextParse]_vars

(***************************************************************************)
(* Well-formed token sequences, generated from the grammar and paired with *)
(* the value they denote; the parser is not used.  A complete value is a   *)
(* scalar token, or a closed array of commas and complete values, or a     *)
(* closed object of commas and `key : value` entries with String keys.     *)
(***************************************************************************)
ScalarTokens == {t \in ParseAlphabet : t.type \in {"Null", "Boolean", "Number", "String"}}

ScalarValue(t) ==
    IF t.type = "Null" THEN JsonNull
    ELSE IF t.type = "Boolean" THEN JsonBoolean(t.bool)
    ELSE IF t.type = "Number" THEN JsonNumber(t.num)
    ELSE JsonString(t.str)

StringTokens == {t \in ParseAlphabet : t.type = "String"}

RECURSIVE CompleteValues(_)
RECURSIVE ItemRuns(_)
RECURSIVE EntryRuns(_)

\* Runs of at most n tokens made of commas and complete values, with the
\* values in their order of appearance.
ItemRuns(n) ==
    {[toks |-> <<>>, vals |-> <<>>]}
    \cup (IF n < 1 THEN {}
          ELSE {[toks |-> <<Comma>> \o r.toks, vals |-> r.vals] : r \in ItemRuns(n - 1)}
               \cup UNION {{[toks |-> v.toks \o r.toks, vals |-> <<v.val>> \o r.vals] :
                             r \in ItemRuns(n - Len(v.toks))} : v \in CompleteValues(n)})

\* Runs of at most n tokens made of commas and `key : value` entries, with
\* the keys and the values in their order of appearance.
EntryRuns(n) ==
    {[toks |-> <<>>, keys |-> <<>>, vals |-> <<>>]}
    \cup (IF n < 1 THEN {}
          ELSE {[toks |-> <<Comma>> \o r.toks, keys |-> r.keys, vals |-> r.vals] :
                    r \in EntryRuns(n - 1)})
    \cup (IF n < 3 THEN {}
          ELSE UNION {UNION {{[toks |-> <<k, Colon>> \o v.toks \o r.toks,
                               keys |-> <<k.str>> \o r.keys,
                               vals |-> <<v.val>> \o r.vals] :
                               r \in EntryRuns(n - 2 - Len(v.toks))} :
                             v \in CompleteValues(n - 2)} : k \in StringTokens})

\* The mapping denoted by a run of entries: each key maps to the value of
\* its last entry.
EntryMap(keys, vals) ==
    [k \in {keys[j] : j \in 1..Len(keys)} |->
        vals[CHOOSE j \in 1..Len(keys) :
                 keys[j] = k /\ \A m \in 1..Len(keys) : keys[m] = k => m <= j]]

CompleteValues(n) ==
    (IF n < 1 THEN {}
     ELSE {[toks |-> <<t>>, val |-> ScalarValue(t)] : t \in ScalarTokens})
    \cup (IF n < 2 THEN {}
          ELSE {[toks |-> <<OpenBracket>> \o r.toks \o <<CloseBracket>>,
                 val |-> JsonArray(r.vals)] : r \in ItemRuns(n - 2)}
               \cup {[toks |-> <<OpenBrace>> \o r.toks \o <<CloseBrace>>,
                      val |-> JsonObjectMap(EntryMap(r.keys, r.vals))] :
                        r \in EntryRuns(n - 2)})

ValueForms == CompleteValues(MaxTokens)
ValueTokens == {f.toks : f \in ValueForms}
ArrayForms == {f \in ValueForms : f.toks[1] = OpenBracket}
ArrayTokens == {f.toks : f \in ArrayForms}

\* C6: for tokens of the form `[`, commas and complete values, `]`, parse
\* returns the Array of exactly those values in their order of appearance,
\* with the cursor past the closing bracket; no comma yields an element or
\* an error.
C6_ArrayElementsInOrder ==
    (parsed # NotCalled /\ tokens \in ArrayTokens) =>
        /\ parsed.kind = "value"
        /\ [toks |-> tokens, val |-> parsed.value] \in ArrayForms
        /\ parsed.pos = Len(tokens) + 1

C6_Witness ==
    /\ parsed # NotCalled
    /\ tokens = <<OpenBracket, Comma, TokNumber(SmallF64(1)), TokNull, CloseBracket>>
    /\ parsed = Value(JsonArray(<<JsonNumber(SmallF64(1)), JsonNull>>), 6)

\* C10: when the tokens start with a complete value, a top-level parse
\* returns that value with the cursor right after it, whatever follows.
C10_StopsAfterFirstValue ==
    parsed # NotCalled =>
        \A k \in 1..Len(tokens) :
            SubSeq(tokens, 1, k) \in ValueTokens =>
                /\ parsed.kind = "value"
                /\ [toks |-> SubSeq(tokens, 1, k), val |-> parsed.value] \in ValueForms
                /\ parsed.pos = k + 1

C10_Witness ==
    /\ parsed # NotCalled
    /\ tokens = <<OpenBracket, TokNull, CloseBracket, CloseBracket, Colon>>
    /\ parsed = Value(JsonArray(<<JsonNull>>), 4)

\* The containers still open when the tokens run out: the stack of opening
\* tokens not yet matched.  Empty when the first value is complete before
\* the end, or when a closing token does not match.
RECURSIVE OpenContainers(_, _, _)
OpenContainers(toks, i, stack) ==
    IF i > Len(toks) THEN stack
    ELSE IF i > 1 /\ stack = <<>> THEN <<>>
    ELSE IF toks[i] \in {OpenBracket, OpenBrace}
         THEN OpenContainers(toks, i + 1, Append(stack, toks[i]))
    ELSE IF toks[i] \in {CloseBracket, CloseBrace}
         THEN IF stack # <<>>
                 /\ Last(stack) = (IF toks[i] = CloseBracket THEN OpenBracket ELSE OpenBrace)
              THEN OpenContainers(toks, i + 1, SubSeq(stack, 1, Len(stack) - 1))
              ELSE <<>>
    ELSE IF stack = <<>> THEN <<>>
    ELSE OpenContainers(toks, i + 1, stack)

EndsInsideContainer(toks) == OpenContainers(toks, 1, <<>>) # <<>>

\* C3: when the tokens end while an array or object is still open, parse
\* does not return a JsonValue built from the tokens seen so far.
C3_UnterminatedIsError ==
    (parsed # NotCalled /\ EndsInsideContainer(tokens)) => parsed.kind # "value"

\* The tokens the specification accepts as object keys.
IsKeyToken(t) == t.type \in {"String", "Number", "Boolean"}

\* The first entry of an object is malformed: after `{` and any commas comes
\* a key that is not followed by a colon, or a token that is neither a key
\* nor `}`.
FirstEntryMalformed(toks) ==
    /\ Len(toks) >= 2
    /\ toks[1] = OpenBrace
    /\ \E j \in 2..Len(toks) :
        /\ \A m \in 2..(j - 1) : toks[m] = Comma
        /\ toks[j] # Comma
        /\ \/ IsKeyToken(toks[j]) /\ (j = Len(toks) \/ toks[j + 1] # Colon)
           \/ ~IsKeyToken(toks[j]) /\ toks[j] # CloseBrace

\* C4: a key without a colon, or a token that cannot start an entry, makes
\* parse return a typed error value to its caller; the call does not panic.
C4_MalformedEntryIsTypedError ==
    (parsed # NotCalled /\ FirstEntryMalformed(tokens)) => parsed.kind = "error"

Digits == <<"0", "1", "2", "3", "4", "5", "6", "7", "8", "9">>

RECURSIVE NatText(_)
NatText(n) ==
    IF n < 10 THEN <<Digits[n + 1]>> ELSE Append(NatText(n \div 10), Digits[(n % 10) + 1])

\* The textual form of a key token: the text of a String, the decimal form
\* of a (small integer) Number, "true" or "false" for a Boolean.
KeyText(t) ==
    IF t.type = "String" THEN t.str
    ELSE IF t.type = "Number" THEN NatText(t.num.int[4])
    ELSE IF t.bool THEN <<"t", "r", "u", "e">>
    ELSE <<"f", "a", "l", "s", "e">>

\* C5: in `{ key : value }` a String, Number or Boolean key is accepted and
\* the object maps the key's text to the parsed value.
C5_ScalarKeysAccepted ==
    (/\ parsed # NotCalled
     /\ Len(tokens) = 5
     /\ tokens[1] = OpenBrace
     /\ IsKeyToken(tokens[2])
     /\ tokens[3] = Colon
     /\ tokens[4] \in ScalarTokens
     /\ tokens[5] = CloseBrace) =>
        parsed = Value(JsonObjectMap(MapInsert(EmptyMap, KeyText(tokens[2]),
                                               ScalarValue(tokens[4]))), 6)

(***************************************************************************)
(* Properties of serialize.                                                *)
(***************************************************************************)
\* C1: serialize returns a byte sequence for every JsonObject.
C1_SerializeIsTotal == packed # NotCalled => packed.kind = "bytes"

\* Byte k of a u64, counted from the least significant (k = 0 .. 7).
ByteAt(v, k) == (Limb(v, k \div 2) \div (IF k % 2 = 1 THEN 256 ELSE 1)) % 256

\* The number of bytes up to the most significant non-zero byte.
SignificantBytes(v) ==
    IF v = ZeroLimbs THEN 0
    ELSE 1 + (CHOOSE k \in 0..7 : ByteAt(v, k) # 0 /\ \A j \in (k + 1)..7 : ByteAt(v, j) = 0)

\* The n low bytes of v, most significant first.
BigEndian(v, n) == [j \in 1..n |-> ByteAt(v, n - j)]

\* The shortest unsigned MessagePack form of v.
ShortestUint(v) ==
    LET n == SignificantBytes(v)
    IN  IF n <= 1 /\ ByteAt(v, 0) <= 127 THEN <<ByteAt(v, 0)>>
        ELSE IF n <= 1 THEN <<204>> \o BigEndian(v, 1)
        ELSE IF n <= 2 THEN <<205>> \o BigEndian(v, 2)
        ELSE IF n <= 4 THEN <<206>> \o BigEndian(v, 4)
        ELSE <<207>> \o BigEndian(v, 8)

\* A Number holding an integer v with 0 <= v <= 2^64 - 1.
IsUintNumber(obj) ==
    /\ obj.type = "Number"
    /\ ~obj.num.big
    /\ obj.num.frac = <<>>
    /\ (obj.num.neg => obj.num.int = ZeroLimbs)

\* C2: a non-negative integer below 2^64 is encoded in the shortest unsigned
\* form: fixint up to 127, then uint8, uint16, uint32, uint64, each boundary
\* value taking the smaller header.
C2_UintShortestForm ==
    (packed # NotCalled /\ IsUintNumber(object)) =>
        packed = Bytes(ShortestUint(object.num.int))

C2_Witness ==
    /\ object = JsonNumber(F64(FALSE, FALSE, <<0, 0, 65535, 65535>>, <<>>))
    /\ packed = Bytes(<<206, 255, 255, 255, 255>>)

(***************************************************************************)
(* Tokenizer (src/parser/token.rs).  The input is read through a           *)
(* Peekable<Chars>; each call of next() or peek() is one step.  An item of *)
(* the stream is a character or EndOfInput (the iterator's None).          *)
(* `peeked` is empty while the next item is still open, and holds the next *)
(* item once peek() has looked at it or once the input has ended (Chars    *)
(* keeps returning None).                                                  *)
(***************************************************************************)
EndOfInput == "EOF"

DigitChars == {"0", "1", "2", "3", "4", "5", "6", "7", "8", "9"}
PunctChars == {"{", "}", "[", "]", ":", ","}
SpaceChars == {" ", "\n", "\t"}
KeywordChars == {"t", "f", "n"}

\* The input texts of the model are written in one of two character sets:
\* the letters of the keywords and a blank, or the characters of string
\* and number literals with a separator and '-'.
KeywordInputs == {"t", "r", "u", "e", "f", "a", "l", "s", "n", " "}
LiteralInputs == {"\"", "5", ".", "e", "-", ","}

\* The characters the number arm keeps consuming: '0'..='9' | '.' | 'e' | 'E'.
NumberChars == {"0", "1", "2", "3", "4", "5", "6", "7", "8", "9", ".", "e", "E"}

Ok(toks) == [kind |-> "Ok", tokens |-> toks]
Err(e) == [kind |-> "Err", error |-> e]

PunctToken(c) ==
    IF c = "{" THEN OpenBrace
    ELSE IF c = "}" THEN CloseBrace
    ELSE IF c = "[" THEN OpenBracket
    ELSE IF c = "]" THEN CloseBracket
    ELSE IF c = ":" THEN Colon
    ELSE Comma

\* The `expected` argument of assert_next_chars for the first character.
Expected(c) ==
    IF c = "t" THEN <<"r", "u", "e">>
    ELSE IF c = "f" THEN <<"a", "l", "s", "e">>
    ELSE <<"u", "l", "l">>

KeywordToken(c) ==
    IF c = "t" THEN TokBoolean(TRUE)
    ELSE IF c = "f" THEN TokBoolean(FALSE)
    ELSE TokNull

assert_next_chars_any(next_chars, expected) == "Ok"

\* The comparison that ends assert_next_chars, once expected.len()
\* characters have been read.
assert_next_chars(next_chars, expected) ==
    IF next_chars = expected THEN "Ok" ELSE "UnexpectedEndOfInput"

(***************************************************************************)
(* number.parse::<f64>() on a literal that starts with a digit:            *)
(*   Digit+ [ '.' Digit* ] [ ('e' | 'E') Digit+ ]                          *)
(***************************************************************************)
IsDigit(c) == \E d \in 1..10 : Digits[d] = c

DigitValue(c) == (CHOOSE d \in 1..10 : Digits[d] = c) - 1

\* The first index from i on that holds no digit.
RECURSIVE SkipDigits(_, _)
SkipDigits(s, i) ==
    IF i <= Len(s) /\ IsDigit(s[i]) THEN SkipDigits(s, i + 1) ELSE i

RECURSIVE NatValue(_)
NatValue(ds) ==
    IF ds = <<>> THEN 0
    ELSE 10 * NatValue(SubSeq(ds, 1, Len(ds) - 1)) + DigitValue(Last(ds))

\* v * 10 + d on a u64; `big` once the result needs more than 64 bits.
MulAdd10(v, d) ==
    LET t4 == v[4] * 10 + d
        t3 == v[3] * 10 + t4 \div 65536
        t2 == v[2] * 10 + t3 \div 65536
        t1 == v[1] * 10 + t2 \div 65536
    IN  [big |-> t1 >= 65536,
         int |-> <<t1 % 65536, t2 % 65536, t3 % 65536, t4 % 65536>>]

\* The integer written by the first p digits of ds (zeros past its end).
RECURSIVE DecimalInteger(_, _)
DecimalInteger(ds, p) ==
    IF p <= 0 THEN [big |-> FALSE, int |-> ZeroLimbs]
    ELSE LET head == DecimalInteger(ds, p - 1)
             d == IF p <= Len(ds) THEN DigitValue(ds[p]) ELSE 0
             next == MulAdd10(head.int, d)
         IN  IF head.big \/ next.big THEN [big |-> TRUE, int |-> ZeroLimbs] ELSE next

RECURSIVE StripTrailingZeros(_)
StripTrailingZeros(ds) ==
    IF ds # <<>> /\ Last(ds) = "0" THEN StripTrailingZeros(SubSeq(ds, 1, Len(ds) - 1))
    ELSE ds

ParseFloat(s) ==
    LET i1 == SkipDigits(s, 1)
        hasDot == i1 <= Len(s) /\ s[i1] = "."
        i2 == IF hasDot THEN SkipDigits(s, i1 + 1) ELSE i1
        hasExp == i2 <= Len(s) /\ s[i2] \in {"e", "E"}
        i3 == IF hasExp THEN SkipDigits(s, i2 + 1) ELSE i2
        intDigits == SubSeq(s, 1, i1 - 1)
        fracDigits == IF hasDot THEN SubSeq(s, i1 + 1, i2 - 1) ELSE <<>>
        expDigits == IF hasExp THEN SubSeq(s, i2 + 1, i3 - 1) ELSE <<>>
        digits == intDigits \o fracDigits
        point == Len(intDigits) + NatValue(expDigits)
        whole == DecimalInteger(digits, point)
        frac == IF whole.big THEN <<>>
                ELSE StripTrailingZeros(SubSeq(digits, point + 1, Len(digits)))
    IN  IF i3 = Len(s) + 1 /\ (hasExp => expDigits # <<>>)
        THEN [ok |-> TRUE, value |-> F64(FALSE, whole.big, whole.int, frac)]
        ELSE [ok |-> FALSE]

(***************************************************************************)
(* SpecTokenize: one call tokenize(input), a step per character read.      *)
(***************************************************************************)
MaxLexed == 2         \* tokens in the input
MaxStringChars == 1   \* characters of one string literal
MaxNumberChars == 3   \* characters of one number literal

InitTokenize ==
    /\ pc = "start"
    /\ lexed = <<>>
    /\ buffer = <<>>
    /\ peeked = <<>>
    /\ lexeme = <<>>
    /\ charset \in {KeywordInputs, LiteralInputs}
    /\ result = NotCalled
    /\ SerializeIdle
    /\ ParseIdle

\* The items the stream can return next.
NextItems == IF peeked # <<>> THEN {peeked[1]} ELSE charset \cup {EndOfInput}

\* The look-ahead slot after next() has returned item c.
Consumed(c) == IF c = EndOfInput THEN <<EndOfInput>> ELSE <<>>

CanPush == Len(lexed) < MaxLexed

\* `while let Some(char) = input.next()` fails: Ok(tokens).
StartEnd ==
    /\ pc = "start"
    /\ EndOfInput \in NextItems
    /\ pc' = "done"
    /\ result' = Ok(lexed)
    /\ peeked' = Consumed(EndOfInput)
    /\ UNCHANGED <<lexed, buffer, lexeme, charset, serVars, parseVars>>

\* '{' | '}' | '[' | ']' | ':' | ',' : the token is pushed.
StartPunct ==
    /\ pc = "start"
    /\ CanPush
    /\ \E c \in NextItems \cap PunctChars :
        /\ lexed' = Append(lexed, PunctToken(c))
        /\ lexeme' = <<c>>
        /\ peeked' = Consumed(c)
    /\ UNCHANGED <<pc, buffer, result, charset, serVars, parseVars>>

\* '"' : let mut string = String::new().
StartString ==
    /\ pc = "start"
    /\ CanPush
    /\ "\"" \in NextItems
    /\ pc' = "string"
    /\ buffer' = <<>>
    /\ lexeme' = <<"\"">>
    /\ peeked' = Consumed("\"")
    /\ UNCHANGED <<lexed, result, charset, serVars, parseVars>>

\* '0'..='9' : number.push(char).
StartNumber ==
    /\ pc = "start"
    /\ CanPush
    /\ \E c \in NextItems \cap DigitChars :
        /\ pc' = "number"
        /\ buffer' = <<c>>
        /\ lexeme' = <<c>>
        /\ peeked' = Consumed(c)
    /\ UNCHANGED <<lexed, result, charset, serVars, parseVars>>

\* 't' | 'f' | 'n' : assert_next_chars starts with an empty next_chars.
StartKeyword ==
    /\ pc = "start"
    /\ CanPush
    /\ \E c \in NextItems \cap KeywordChars :
        /\ pc' = "keyword"
        /\ buffer' = <<>>
        /\ lexeme' = <<c>>
        /\ peeked' = Consumed(c)
    /\ UNCHANGED <<lexed, result, charset, serVars, parseVars>>

\* ' ' | '\n' | '\t' => continue.
StartSpace ==
    /\ pc = "start"
    /\ \E c \in NextItems \cap SpaceChars :
        /\ lexeme' = <<c>>
        /\ peeked' = Consumed(c)
    /\ UNCHANGED <<pc, lexed, buffer, result, charset, serVars, parseVars>>

\* _ => return Err(ParseError::InvalidToken).
StartInvalid ==
    /\ pc = "start"
    /\ \E c \in NextItems \ ({EndOfInput, "\""} \cup PunctChars \cup DigitChars
                                \cup KeywordChars \cup SpaceChars) :
        /\ lexeme' = <<c>>
        /\ peeked' = Consumed(c)
    /\ pc' = "done"
    /\ result' = Err("InvalidToken")
    /\ UNCHANGED <<lexed, buffer, charset, serVars, parseVars>>

\* `for char in input.by_ref()`: '"' => break, and the loop also ends when
\* the input does; either way Token::String(string) is pushed.
StringEnd ==
    /\ pc = "string"
    /\ \E c \in NextItems \cap {"\"", EndOfInput} :
        /\ lexeme' = IF c = EndOfInput THEN lexeme ELSE Append(lexeme, c)
        /\ peeked' = Consumed(c)
    /\ lexed' = Append(lexed, TokString(buffer))
    /\ buffer' = <<>>
    /\ pc' = "start"
    /\ UNCHANGED <<result, charset, serVars, parseVars>>

\* _ => string.push(char).
StringPush ==
    /\ pc = "string"
    /\ Len(buffer) < MaxStringChars
    /\ \E c \in NextItems \ {"\"", EndOfInput} :
        /\ buffer' = Append(buffer, c)
        /\ lexeme' = Append(lexeme, c)
        /\ peeked' = Consumed(c)
    /\ UNCHANGED <<pc, lexed, result, charset, serVars, parseVars>>

\* peek() shows '0'..='9' | '.' | 'e' | 'E': number.push(char); input.next().
NumberPush ==
    /\ pc = "number"
    /\ Len(buffer) < MaxNumberChars
    /\ \E c \in NextItems \cap NumberChars :
        /\ buffer' = Append(buffer, c)
        /\ lexeme' = Append(lexeme, c)
        /\ peeked' = Consumed(c)
    /\ UNCHANGED <<pc, lexed, result, charset, serVars, parseVars>>

\* peek() shows anything else, or None: the loop breaks with the item left
\* in the look-ahead slot, and number.parse() decides.
NumberEnd ==
    /\ pc = "number"
    /\ \E c \in NextItems \ NumberChars : peeked' = <<c>>
    /\ LET r == ParseFloat(buffer)
       IN  IF r.ok
           THEN /\ lexed' = Append(lexed, TokNumber(r.value))
                /\ pc' = "start"
                /\ result' = result
           ELSE /\ lexed' = lexed
                /\ pc' = "done"
                /\ result' = Err("InvalidNumber")
    /\ buffer' = <<>>
    /\ UNCHANGED <<lexeme, charset, serVars, parseVars>>

\* assert_next_chars: input.next().ok_or(UnexpectedEndOfInput)?
KeywordEnd ==
    /\ pc = "keyword"
    /\ EndOfInput \in NextItems
    /\ peeked' = Consumed(EndOfInput)
    /\ pc' = "done"
    /\ result' = Err("UnexpectedEndOfInput")
    /\ buffer' = <<>>
    /\ UNCHANGED <<lexed, lexeme, charset, serVars, parseVars>>

\* assert_next_chars: next_chars.push(c); after expected.len() characters
\* the comparison decides between the token and UnexpectedEndOfInput.
KeywordChar ==
    /\ pc = "keyword"
    /\ \E c \in NextItems \ {EndOfInput} :
        LET next_chars == Append(buffer, c)
            expected == Expected(lexeme[1])
        IN  /\ lexeme' = Append(lexeme, c)
            /\ peeked' = Consumed(c)
            /\ IF Len(next_chars) < Len(expected)
               THEN /\ buffer' = next_chars
                    /\ UNCHANGED <<pc, lexed, result>>
               ELSE /\ buffer' = <<>>
                    /\ IF assert_next_chars(next_chars, expected) = "Ok"
                       THEN /\ lexed' = Append(lexed, KeywordToken(lexeme[1]))
                            /\ pc' = "start"
                            /\ result' = result
                       ELSE /\ lexed' = lexed
                            /\ pc' = "done"
                            /\ result' = Err(assert_next_chars(next_chars, expected))
    /\ UNCHANGED <<charset, serVars, parseVars>>

NextTokenize ==
    \/ StartEnd
    \/ StartPunct
    \/ StartString
    \/ StartNumber
    \/ StartKeyword
    \/ StartSpace
    \/ StartInvalid
    \/ StringEnd
    \/ StringPush
    \/ NumberPush
    \/ NumberEnd
    \/ KeywordEnd
    \/ KeywordChar

SpecTokenize == InitTokenize /\ [][NextTokenize]_vars

(***************************************************************************)
(* Properties of tokenize.                                                 *)
(***************************************************************************)
\* The lexeme opens a string literal and holds no closing quote.
UnterminatedString(lx) ==
    /\ lx # <<>>
    /\ lx[1] = "\""
    /\ (Len(lx) = 1 \/ Last(lx) # "\"")

\* C7: when the input ends inside a string literal, tokenize returns a
\* lexical error, not Ok with the truncated text as a String token.
C7_UnterminatedStringIsError ==
    (result # NotCalled /\ UnterminatedString(lexeme)) => result.kind = "Err"

\* The full text of the keyword that starts with c.
KeywordText(c) == <<c>> \o Expected(c)

\* Once the characters after a 't', 'f' or 'n' have been read: either they
\* spell the keyword, its token is the last one pushed and scanning resumes
\* at the very next character, or the call has failed with
\* UnexpectedEndOfInput.
KeywordOutcome ==
    (lexeme # <<>> /\ lexeme[1] \in KeywordChars /\ pc # "keyword") =>
        IF lexeme = KeywordText(lexeme[1])
        THEN /\ result.kind # "Err"
             /\ lexed # <<>>
             /\ Last(lexed) = KeywordToken(lexeme[1])
             /\ (pc = "start" => peeked = <<>>)
        ELSE result = Err("UnexpectedEndOfInput")

\* A Boolean or Null token is pushed only at the end of its keyword's text,
\* and behind the tokens already there.
KeywordPush ==
    (lexed' # lexed /\ Last(lexed').type \in {"Boolean", "Null"}) =>
        \E c \in KeywordChars :
            /\ lexeme' = KeywordText(c)
            /\ lexed' = Append(lexed, KeywordToken(c))

\* C8: 't', 'f', 'n' yield Boolean(true), Boolean(false), Null exactly when
\* followed by "rue", "alse", "ull"; any other continuation, or the end of
\* the input, gives Err(UnexpectedEndOfInput); after a keyword scanning
\* resumes right behind it.
C8_KeywordsExact == [][KeywordOutcome' /\ KeywordPush]_vars

C8_Witness ==
    /\ lexed = <<TokBoolean(FALSE), TokNull>>
    /\ lexeme = <<"n", "u", "l", "l">>
    /\ result = Ok(lexed)

\* C9: a '-' at token position starts a number literal; it does not fail
\* with InvalidToken.
C9_MinusStartsNumber ==
    (result # NotCalled /\ lexeme # <<>> /\ lexeme[1] = "-") =>
        result # Err("InvalidToken")

====
